---- MODULE Spec2Model ----
(***************************************************************************)
(* Threshold estimators, benchmark harness and binarization loop of        *)
(* src/main.cpp.                                                           *)
(*                                                                         *)
(* Three specifications share the variables:                               *)
(*   Spec           main(): load, the six timed estimator calls, restore   *)
(*                  after the two sorting ones, binarization, write.       *)
(*   EstimatorSpec  each estimator applied once to an input buffer with a  *)
(*                  ratio (and sample rate) drawn from bounded sets.       *)
(*   ApplierSpec    the binarization loop applied to an input buffer with  *)
(*                  a threshold drawn from the whole pixel range.          *)
(*                                                                         *)
(* A float ratio is a pair <<num, den>>, and float arithmetic is exact     *)
(* arithmetic on fractions, truncated where the code converts to an        *)
(* integer.  On every input of the three specifications the binary32       *)
(* computation of the compiled functions truncates to the same integer.    *)
(***************************************************************************)
EXTENDS Integers, Sequences, FiniteSets, TLC

VARIABLES
    depth,        \* BIT_DEPTH of the build: 8 (Pixel = stbi_uc) or 16 (stbi_uint16)
    byte_order,   \* memory layout of a 16-bit Pixel: "little" or "big"
    width,        \* image width
    height,       \* image height
    image,        \* Pixel* image: the working buffer, a sequence of pixels
    copy,         \* Pixel* copy: the malloc'ed block, a sequence of bytes (-1: indeterminate)
    decoded,      \* the buffer as the decoder (or the caller) handed it over
    ratio,        \* the float ratio passed to the estimators, <<num, den>>
    sample_rate,  \* the sample_rate passed to uniform_sample
    threshold,    \* the six *_threshold locals, -1 while not yet computed
    applied,      \* the threshold the binarization loop ran with, -1 before it
    ub,           \* the undefined behaviour executed so far: <<estimator, kind>>
    events,       \* what main did so far, in order
    pc            \* position in main (Spec) or the function called (the other two)

vars == <<depth, byte_order, width, height, image, copy, decoded, ratio,
          sample_rate, threshold, applied, ub, events, pc>>

-----------------------------------------------------------------------------
(* Program constants.                                                      *)

BIT_DEPTH == 8

SampleRate == 10

\* constexpr float Ratio = 0.33f
Ratio == <<33, 100>>

\* The two builds of "#if BIT_DEPTH <= 8 ... #else ... #endif".
BitDepths == {BIT_DEPTH, 16}

\* 1 << BIT_DEPTH
Levels == 2 ^ depth

\* (1 << BIT_DEPTH) - 1, the largest Pixel
MaxValue == Levels - 1

\* sizeof(Pixel)
PixelSize == IF depth <= 8 THEN 1 ELSE 2

Estimators == {"counting_sort", "std_sort", "nth_element_sort",
               "normal_estimate", "weighted_estimate", "uniform_sample"}

-----------------------------------------------------------------------------
(* Bounds and input sets.                                                  *)

\* Largest width * height of an image main loads.
MaxPixels == 3

\* Largest width * height of an input image of EstimatorSpec and ApplierSpec.
MaxInputPixels == 4

\* Largest sample_rate EstimatorSpec passes to uniform_sample.
MaxRate == 2

\* Pixel values of generated images, per build.
Samples(d) == IF d <= 8 THEN {0, 127, 255} ELSE {0, 255, 256, 65535}

\* Ratios EstimatorSpec passes, in ascending order of value.
Ratios == {<<0, 1>>, <<1, 4>>, <<2, 5>>, <<1, 2>>, <<3, 4>>, <<1, 1>>}

\* (width, height) pairs of images of at most n pixels.
Shapes(n) == {s \in (1..n) \X (1..n) : s[1] * s[2] <= n}

\* The 1 x 5 image of the worked example.
Example == <<10, 20, 30, 40, 50>>

-----------------------------------------------------------------------------
(* Arithmetic helpers.                                                     *)

\* (integer)(k * ratio): the product truncated towards zero.
TruncMul(k, r) == (k * r[1]) \div r[2]

\* r1 <= r2 for two ratios.
RatioLeq(r1, r2) == r1[1] * r2[2] <= r2[1] * r1[2]

\* Conversion of an unsigned integer to Pixel keeps the low BIT_DEPTH bits.
ToPixel(x) == x % Levels

Min(S) == CHOOSE x \in S : \A y \in S : x <= y

Max(S) == CHOOSE x \in S : \A y \in S : x >= y

RECURSIVE Sum(_)
Sum(s) == IF s = <<>> THEN 0 ELSE Head(s) + Sum(Tail(s))

\* The buffer sorted ascending, by insertion.
RECURSIVE Insert(_, _)
Insert(x, s) ==
    IF s = <<>> THEN <<x>>
    ELSE IF x <= Head(s) THEN <<x>> \o s
    ELSE <<Head(s)>> \o Insert(x, Tail(s))

RECURSIVE Sorted(_)
Sorted(s) == IF s = <<>> THEN <<>> ELSE Insert(Head(s), Sorted(Tail(s)))

\* All reorderings of a buffer.
Reorderings(s) == {[i \in 1..Len(s) |-> s[f[i]]] : f \in Permutations(1..Len(s))}

(* Natural numbers beyond the range of TLC's 32-bit integers, as            *)
(* little-endian sequences of base-10000 digits without leading zeros.      *)
(* They carry the squares, sums and powers that normal_estimate computes    *)
(* in size_t, double and float.                                             *)
RECURSIVE BigOf(_)
BigOf(n) == IF n = 0 THEN <<>> ELSE <<n % 10000>> \o BigOf(n \div 10000)

RECURSIVE BigAdd(_, _, _)
BigAdd(a, b, c) ==
    IF a = <<>> /\ b = <<>> THEN BigOf(c)
    ELSE LET x == IF a = <<>> THEN 0 ELSE Head(a)
             y == IF b = <<>> THEN 0 ELSE Head(b)
             t == x + y + c
         IN <<t % 10000>> \o BigAdd(IF a = <<>> THEN <<>> ELSE Tail(a),
                                    IF b = <<>> THEN <<>> ELSE Tail(b),
                                    t \div 10000)

\* a * m + c for 0 <= m < 2^17.
RECURSIVE BigMulInt(_, _, _)
BigMulInt(a, m, c) ==
    IF m = 0 \/ a = <<>> THEN BigOf(c)
    ELSE LET t == Head(a) * m + c
         IN <<t % 10000>> \o BigMulInt(Tail(a), m, t \div 10000)

RECURSIVE BigMul(_, _)
BigMul(a, b) ==
    IF a = <<>> \/ b = <<>> THEN <<>>
    ELSE LET rest == BigMul(Tail(a), b)
         IN BigAdd(BigMulInt(b, Head(a), 0),
                   IF rest = <<>> THEN <<>> ELSE <<0>> \o rest, 0)

RECURSIVE BigPow(_, _)
BigPow(a, e) == IF e = 0 THEN <<1>> ELSE BigMul(a, BigPow(a, e - 1))

RECURSIVE BigLeqFrom(_, _, _)
BigLeqFrom(a, b, i) ==
    IF i = 0 THEN TRUE
    ELSE IF a[i] # b[i] THEN a[i] < b[i]
    ELSE BigLeqFrom(a, b, i - 1)

BigLeq(a, b) ==
    \/ Len(a) < Len(b)
    \/ Len(a) = Len(b) /\ BigLeqFrom(a, b, Len(a))

-----------------------------------------------------------------------------
(* The estimators.  Each returns what one call can do: ret, the values it   *)
(* can return; buf, the contents it can leave in the buffer; ub, the        *)
(* undefined behaviour it executes.  A value read past the end of the       *)
(* buffer, or a float converted to a Pixel that cannot hold it, is any      *)
(* Pixel.                                                                   *)

Returns(v, greyscale) == [ret |-> {v}, buf |-> {greyscale}, ub |-> {}]

Undefined(kind, bufs) == [ret |-> 0..MaxValue, buf |-> bufs, ub |-> {kind}]

\* size_t sigma_total after "sigma_total += std::pow(greyscale[pixel] - average, 2)".
RECURSIVE SquaredDeviations(_, _)
SquaredDeviations(s, average) ==
    IF s = <<>> THEN <<>>
    ELSE LET d == IF Head(s) >= average THEN Head(s) - average
                  ELSE average - Head(s)
         IN BigAdd(BigMulInt(BigOf(d), d, 0),
                   SquaredDeviations(Tail(s), average), 0)

\* ratio + ratio^3 + ratio^5 + ratio^7 as the fraction <<numerator, denominator>>.
Approximation(r) ==
    LET n == BigOf(r[1])
        d == BigOf(r[2])
        n1 == BigMul(n, BigPow(d, 6))
        n3 == BigMul(BigPow(n, 3), BigPow(d, 4))
        n5 == BigMul(BigPow(n, 5), BigPow(d, 2))
        n7 == BigPow(n, 7)
    IN <<BigAdd(BigAdd(n1, n3, 0), BigAdd(n5, n7, 0), 0), BigPow(d, 7)>>

\* k <= z * sigma, with z = sqrt2 * approximation and sigma = sqrt(sigma_total / size):
\* k^2 * size * den^2 <= 2 * num^2 * sigma_total, given lhs = size * den^2 and
\* rhs = 2 * num^2 * sigma_total.
ReachedBy(k, lhs, rhs) == BigLeq(BigMulInt(BigMulInt(lhs, k, 0), k, 0), rhs)

\* The integer part of z * sigma, known to lie in lo..hi-1.
RECURSIVE FloorZSigma(_, _, _, _)
FloorZSigma(lo, hi, lhs, rhs) ==
    IF hi - lo <= 1 THEN lo
    ELSE LET mid == (lo + hi) \div 2
         IN IF ReachedBy(mid, lhs, rhs) THEN FloorZSigma(mid, hi, lhs, rhs)
            ELSE FloorZSigma(lo, mid, lhs, rhs)

normal_estimate(greyscale, w, h, r) ==
    LET size == w * h
        total == Sum(greyscale)
        average == ToPixel(total \div size)
        sigma_total == SquaredDeviations(greyscale, average)
        approximation == Approximation(r)
        lhs == BigMulInt(BigMul(approximation[2], approximation[2]), size, 0)
        rhs == BigMulInt(BigMul(BigMul(approximation[1], approximation[1]),
                                sigma_total), 2, 0)
        \* (float)average + z * sigma >= 1 << BIT_DEPTH: no Pixel holds its integer part
        overflow == ReachedBy(Levels - average, lhs, rhs)
    IN IF overflow THEN Undefined("float_to_pixel", {greyscale})
       ELSE Returns(average + FloorZSigma(0, Levels - average, lhs, rhs), greyscale)

weighted_estimate(greyscale, w, h, r) ==
    LET size == w * h
        total == Sum(greyscale)
        average == ToPixel(total \div size)
        upper == 2 * r[1] > r[2]                        \* ratio > 0.5
        min == IF upper THEN average ELSE 0
        max == IF upper THEN MaxValue ELSE average
        \* percentage = ratio / 0.5f, ratio lowered by 0.5 first when above it
        percentage == IF upper THEN <<2 * r[1] - r[2], r[2]>> ELSE <<2 * r[1], r[2]>>
    IN Returns(ToPixel(min + TruncMul(max - min, percentage)), greyscale)

std_sort(greyscale, w, h, r) ==
    LET n == TruncMul(w * h, r)
        sorted == Sorted(greyscale)
    IN IF n < w * h THEN [ret |-> {sorted[n + 1]}, buf |-> {sorted}, ub |-> {}]
       ELSE Undefined("read_past_end", {sorted})

\* count[v] after "for (pixel = 0; pixel < image_size; pixel += step) count[greyscale[pixel]]++".
Histogram(greyscale, image_size, step, v) ==
    Cardinality({i \in 1..image_size : (i - 1) % step = 0 /\ greyscale[i] = v})

\* n rounds of "while (total < cutoff && index < (1 << BIT_DEPTH)) total += count[index++]"
\* from s = <<total, index>>, or fewer when the condition fails; the rounds are
\* split in two halves to keep the evaluation shallow.
RECURSIVE Walk(_, _, _, _, _, _)
Walk(greyscale, image_size, step, cutoff, s, n) ==
    IF n = 0 \/ ~(s[1] < cutoff /\ s[2] < Levels) THEN s
    ELSE IF n = 1
         THEN <<s[1] + Histogram(greyscale, image_size, step, s[2]), s[2] + 1>>
    ELSE Walk(greyscale, image_size, step, cutoff,
              Walk(greyscale, image_size, step, cutoff, s, n \div 2),
              n - (n \div 2))

\* a < b for two size_t.  The largest size_t, 2^64 - 1, is beyond TLC's
\* integers; -1 stands for it.
SizeLess(a, b) == IF a < 0 THEN FALSE ELSE IF b < 0 THEN TRUE ELSE a < b

\* std::max(a, b) for two size_t.
SizeMax(a, b) == IF SizeLess(a, b) THEN b ELSE a

\* "return std::max((size_t)0, index - 1)" of a function returning Pixel.
\* index - 1 wraps to the largest size_t at index = 0; all its bits are ones,
\* as are those of -1 under ToPixel.
ClampedIndex(index) == ToPixel(SizeMax(0, index - 1))

counting_sort(greyscale, w, h, r) ==
    LET image_size == w * h
        cutoff == TruncMul(image_size, r)
        index == Walk(greyscale, image_size, 1, cutoff, <<0, 0>>, Levels)[2]
    IN Returns(ClampedIndex(index), greyscale)

nth_element_sort(greyscale, w, h, r) ==
    LET size == w * h
        n == TruncMul(size, r)
        nth == Sorted(greyscale)[n + 1]
        \* nth in its sorted place, nothing larger before it, nothing smaller after it
        rearranged == {b \in Reorderings(greyscale) :
                          /\ b[n + 1] = nth
                          /\ \A i \in 1..n : b[i] <= nth
                          /\ \A i \in (n + 2)..size : b[i] >= nth}
    IN IF n < size THEN [ret |-> {nth}, buf |-> rearranged, ub |-> {}]
       ELSE Undefined("read_past_end", {greyscale})

\* uniform_sample with the sampled count taken one too large in the cutoff.
uniform_sample_extra_sample(greyscale, w, h, rate, r) ==
    LET image_size == w * h
        cutoff == TruncMul((image_size \div rate) + 1, r)
        index == Walk(greyscale, image_size, rate, cutoff, <<0, 0>>, Levels)[2]
    IN Returns(ClampedIndex(index), greyscale)

uniform_sample(greyscale, w, h, rate, r) ==
    LET image_size == w * h
        cutoff == TruncMul(image_size \div rate, r)
        index == Walk(greyscale, image_size, rate, cutoff, <<0, 0>>, Levels)[2]
    IN Returns(ClampedIndex(index), greyscale)

\* The loop without its last branch: a pixel on the threshold is left as it is.
BinarizeKeepTies(buffer, t) ==
    [i \in 1..Len(buffer) |->
        IF buffer[i] > t THEN MaxValue
        ELSE IF buffer[i] < t THEN 0
        ELSE buffer[i]]

\* The loop with a plain else: every pixel on the threshold goes black.
BinarizeTiesBlack(buffer, t) ==
    [i \in 1..Len(buffer) |->
        IF buffer[i] > t THEN MaxValue ELSE 0]

\* The loop of main that rewrites the buffer to black and white.
Binarize(buffer, t) ==
    [i \in 1..Len(buffer) |->
        IF buffer[i] > t THEN MaxValue
        ELSE IF buffer[i] < t THEN 0
        ELSE IF ~(buffer[i] = 0 \/ buffer[i] = MaxValue) THEN 0
        ELSE buffer[i]]

-----------------------------------------------------------------------------
(* Memory.  memcpy counts bytes, a Pixel takes sizeof(Pixel) of them.       *)

PixelBytes(p) ==
    IF PixelSize = 1 THEN <<p>>
    ELSE IF byte_order = "little" THEN <<p % 256, p \div 256>>
    ELSE <<p \div 256, p % 256>>

ToBytes(buffer) ==
    [k \in 1..(PixelSize * Len(buffer)) |->
        PixelBytes(buffer[((k - 1) \div PixelSize) + 1])[((k - 1) % PixelSize) + 1]]

FromBytes(bytes) ==
    [i \in 1..(Len(bytes) \div PixelSize) |->
        IF PixelSize = 1 THEN bytes[i]
        ELSE IF byte_order = "little" THEN bytes[2 * i - 1] + 256 * bytes[2 * i]
        ELSE 256 * bytes[2 * i - 1] + bytes[2 * i]]

\* malloc(n): n bytes of indeterminate value.
Malloc(n) == [k \in 1..n |-> -1]

\* std::memcpy(dst, src, n): the first n bytes of dst become those of src.
Memcpy(dst, src, n) == [k \in 1..Len(dst) |-> IF k <= n THEN src[k] ELSE dst[k]]

-----------------------------------------------------------------------------
(* Calls.                                                                   *)

Call(e, greyscale, w, h, rate, r) ==
    CASE e = "counting_sort" -> counting_sort(greyscale, w, h, r)
      [] e = "std_sort" -> std_sort(greyscale, w, h, r)
      [] e = "nth_element_sort" -> nth_element_sort(greyscale, w, h, r)
      [] e = "normal_estimate" -> normal_estimate(greyscale, w, h, r)
      [] e = "weighted_estimate" -> weighted_estimate(greyscale, w, h, r)
      [] e = "uniform_sample" -> uniform_sample(greyscale, w, h, rate, r)

\* "Pixel x_threshold = x(image, width, height, ...)": one of the outcomes of the call.
Invoke(e, rate) ==
    \E out \in {Call(e, image, width, height, rate, ratio)} :
       \E v \in out.ret, b \in out.buf :
          /\ threshold' = [threshold EXCEPT ![e] = v]
          /\ image' = b
          /\ ub' = ub \cup {<<e, k>> : k \in out.ub}

Unset == [e \in Estimators |-> -1]

-----------------------------------------------------------------------------
(* Spec: main().                                                            *)

\* The statements of main in source order, each <<estimator or "", statement>>.
Timed(e) == <<<<e, "start">>, <<e, "call">>, <<e, "end">>, <<e, "display">>>>

\* The restore moved behind the capture of the end time.
TimedThenRestore(e) ==
    <<<<e, "start">>, <<e, "call">>, <<e, "end">>, <<e, "restore">>, <<e, "display">>>>

TimedWithRestore(e) ==
    <<<<e, "start">>, <<e, "call">>, <<e, "restore">>, <<e, "end">>, <<e, "display">>>>

Program ==
    <<<<"", "load">>, <<"", "malloc">>, <<"", "save">>>>
    \o Timed("counting_sort")
    \o TimedWithRestore("std_sort")
    \o TimedWithRestore("nth_element_sort")
    \o Timed("normal_estimate")
    \o Timed("weighted_estimate")
    \o Timed("uniform_sample")
    \o <<<<"", "binarize">>, <<"", "write">>>>

At(statement) == pc \in 1..Len(Program) /\ Program[pc][2] = statement

\* The statement at pc is done: it is logged and control moves on.
Advance == /\ events' = Append(events, Program[pc])
           /\ pc' = pc + 1

Init ==
    /\ depth \in BitDepths
    /\ byte_order \in (IF depth <= 8 THEN {"little"} ELSE {"little", "big"})
    /\ width = 0
    /\ height = 0
    /\ image = <<>>
    /\ copy = <<>>
    /\ decoded = <<>>
    /\ ratio = Ratio
    /\ sample_rate = SampleRate
    /\ threshold = Unset
    /\ applied = -1
    /\ ub = {}
    /\ events = <<>>
    /\ pc = 1

\* stbi_load / stbi_load_16 returns an image and its size.
Load ==
    /\ At("load")
    /\ \E s \in Shapes(MaxPixels) :
          /\ width' = s[1]
          /\ height' = s[2]
          /\ image' \in [1..(s[1] * s[2]) -> Samples(depth)]
    /\ decoded' = image'
    /\ Advance
    /\ UNCHANGED <<depth, byte_order, copy, ratio, sample_rate, threshold, applied, ub>>

\* stbi_load returns nullptr: the assert aborts.
LoadFails ==
    /\ At("load")
    /\ pc' = 0
    /\ events' = Append(events, <<"", "abort">>)
    /\ UNCHANGED <<depth, byte_order, width, height, image, copy, decoded, ratio,
                   sample_rate, threshold, applied, ub>>

\* copy = (Pixel*)malloc(sizeof(Pixel) * width * height)
AllocateCopy ==
    /\ At("malloc")
    /\ copy' = Malloc(PixelSize * width * height)
    /\ Advance
    /\ UNCHANGED <<depth, byte_order, width, height, image, decoded, ratio,
                   sample_rate, threshold, applied, ub>>

\* malloc returns nullptr: return 1.
AllocateFails ==
    /\ At("malloc")
    /\ pc' = 0
    /\ events' = Append(events, <<"", "return 1">>)
    /\ UNCHANGED <<depth, byte_order, width, height, image, copy, decoded, ratio,
                   sample_rate, threshold, applied, ub>>

\* std::memcpy(copy, image, width * height)
SaveCopy ==
    /\ At("save")
    /\ copy' = Memcpy(copy, ToBytes(image), width * height)
    /\ Advance
    /\ UNCHANGED <<depth, byte_order, width, height, image, decoded, ratio,
                   sample_rate, threshold, applied, ub>>

\* start = std::chrono::high_resolution_clock::now()
StartTimer ==
    /\ At("start")
    /\ Advance
    /\ UNCHANGED <<depth, byte_order, width, height, image, copy, decoded, ratio,
                   sample_rate, threshold, applied, ub>>

\* The call of the estimator between start and end.
CallEstimator ==
    /\ At("call")
    /\ Invoke(Program[pc][1], sample_rate)
    /\ Advance
    /\ UNCHANGED <<depth, byte_order, width, height, copy, decoded, ratio,
                   sample_rate, applied>>

\* std::memcpy(image, copy, width * height)
Restore ==
    /\ At("restore")
    /\ image' = FromBytes(Memcpy(ToBytes(image), copy, width * height))
    /\ Advance
    /\ UNCHANGED <<depth, byte_order, width, height, copy, decoded, ratio,
                   sample_rate, threshold, applied, ub>>

\* end = std::chrono::high_resolution_clock::now(); duration = end - start
EndTimer ==
    /\ At("end")
    /\ Advance
    /\ UNCHANGED <<depth, byte_order, width, height, image, copy, decoded, ratio,
                   sample_rate, threshold, applied, ub>>

\* display(name, threshold, duration.count())
Display ==
    /\ At("display")
    /\ Advance
    /\ UNCHANGED <<depth, byte_order, width, height, image, copy, decoded, ratio,
                   sample_rate, threshold, applied, ub>>

\* The binarization loop, with uniform_sample_threshold.
BinarizeImage ==
    /\ At("binarize")
    /\ image' = Binarize(image, threshold["uniform_sample"])
    /\ applied' = threshold["uniform_sample"]
    /\ Advance
    /\ UNCHANGED <<depth, byte_order, width, height, copy, decoded, ratio,
                   sample_rate, threshold, ub>>

\* stbi_write_png(...); return 0
WriteImage ==
    /\ At("write")
    /\ Advance
    /\ UNCHANGED <<depth, byte_order, width, height, image, copy, decoded, ratio,
                   sample_rate, threshold, applied, ub>>

Next ==
    \/ Load
    \/ LoadFails
    \/ AllocateCopy
    \/ AllocateFails
    \/ SaveCopy
    \/ StartTimer
    \/ CallEstimator
    \/ Restore
    \/ EndTimer
    \/ Display
    \/ BinarizeImage
    \/ WriteImage

Spec == Init /\ [][Next]_vars

-----------------------------------------------------------------------------
(* EstimatorSpec: one estimator applied to an input buffer.                 *)

\* The images handed to the functions: all small ones, and the worked example.
InputImages ==
    UNION {{<<s[1], s[2], b>> : b \in [1..(s[1] * s[2]) -> Samples(BIT_DEPTH)]} :
              s \in Shapes(MaxInputPixels)}
    \cup {<<1, Len(Example), Example>>}

\* The sample rates passed to uniform_sample.
Rates == (1..MaxRate) \cup {SampleRate}

InitInput(images) ==
    /\ depth = BIT_DEPTH
    /\ byte_order = "little"
    /\ \E in \in images :
          /\ width = in[1]
          /\ height = in[2]
          /\ image = in[3]
          /\ decoded = in[3]
    /\ copy = <<>>
    /\ sample_rate = SampleRate
    /\ threshold = Unset
    /\ applied = -1
    /\ ub = {}
    /\ events = <<>>
    /\ pc = "input"

InitEstimator ==
    /\ InitInput(InputImages)
    /\ ratio \in Ratios

\* The function e is called once on the input, with sample rate rate.
Apply(e, rate) ==
    /\ pc = "input"
    /\ Invoke(e, rate)
    /\ sample_rate' = rate
    /\ pc' = e
    /\ UNCHANGED <<depth, byte_order, width, height, copy, decoded, ratio, applied, events>>

CallCountingSort == Apply("counting_sort", sample_rate)

CallStdSort == Apply("std_sort", sample_rate)

CallNthElementSort == Apply("nth_element_sort", sample_rate)

CallNormalEstimate == Apply("normal_estimate", sample_rate)

CallWeightedEstimate == Apply("weighted_estimate", sample_rate)

CallUniformSample == \E rate \in Rates : Apply("uniform_sample", rate)

NextEstimator ==
    \/ CallCountingSort
    \/ CallStdSort
    \/ CallNthElementSort
    \/ CallNormalEstimate
    \/ CallWeightedEstimate
    \/ CallUniformSample

EstimatorSpec == InitEstimator /\ [][NextEstimator]_vars

-----------------------------------------------------------------------------
(* ApplierSpec: the binarization loop applied to an input buffer.           *)

\* The synthetic buffers [0, T, T, max], one per threshold T.
Synthetic(t) == <<0, t, t, 2 ^ BIT_DEPTH - 1>>

SyntheticImages == {<<4, 1, Synthetic(t)>> : t \in 0..(2 ^ BIT_DEPTH - 1)}

InitApplier ==
    /\ InitInput(InputImages \cup SyntheticImages)
    /\ ratio = Ratio

\* The loop runs over the buffer with threshold t.
ApplyThreshold ==
    /\ pc = "input"
    /\ \E t \in 0..MaxValue :
          /\ image' = Binarize(image, t)
          /\ applied' = t
    /\ pc' = "binarize"
    /\ UNCHANGED <<depth, byte_order, width, height, copy, decoded, ratio,
                   sample_rate, threshold, ub, events>>

NextApplier == ApplyThreshold

ApplierSpec == InitApplier /\ [][NextApplier]_vars

-----------------------------------------------------------------------------
(* Properties.                                                              *)

Exact == {"counting_sort", "std_sort", "nth_element_sort"}

Pixels(buffer) == {buffer[i] : i \in 1..Len(buffer)}

\* What a call of e on the input buffer, with the state's ratio, can return.
ReturnsOf(e, rate, r) == Call(e, decoded, width, height, rate, r).ret

\* C1: counting_sort, std_sort and nth_element_sort, each run on the same
\* original buffer with the same width, height and ratio, return the same
\* threshold: whatever one of them returned, each of the three returns exactly it.
C1_ExactEstimatorsAgree ==
    pc \in Exact =>
        \A e \in Exact : ReturnsOf(e, sample_rate, ratio) = {threshold[pc]}

\* C2: each exact estimator returns the element at index n = floor(N * ratio)
\* of the ascending-sorted buffer (where the buffer has such an index), and for
\* the buffer [10, 20, 30, 40, 50] with ratio 0.4 each returns 30.
C2_ElementAtIndexN ==
    pc \in Exact =>
        LET n == TruncMul(width * height, ratio)
        IN /\ n < width * height => threshold[pc] = Sorted(decoded)[n + 1]
           /\ (decoded = Example /\ ratio = <<2, 5>>) => threshold[pc] = 30

\* C3: for each of the six estimators, ratio = 0 gives a threshold at or below
\* the smallest pixel, ratio = 1 a threshold at or above the largest pixel, and
\* the call reads no position outside 0..N-1.
C3_RatioEdgeCases ==
    pc \in Estimators =>
        /\ ratio = <<0, 1>> => threshold[pc] <= Min(Pixels(decoded))
        /\ ratio = <<1, 1>> => threshold[pc] >= Max(Pixels(decoded))
        /\ <<pc, "read_past_end">> \notin ub

\* C4: after the binarization loop has run with any threshold over any buffer,
\* every pixel is 0 or the maximum value.
C4_BlackOrWhite ==
    pc = "binarize" => \A i \in 1..Len(image) : image[i] \in {0, MaxValue}

\* C4 witness: the loop ran over a buffer holding a pixel below the threshold,
\* one above it and one equal to it that is neither 0 nor the maximum.
C4_Witness ==
    /\ pc = "binarize"
    /\ \E i, j, k \in 1..Len(decoded) :
          /\ decoded[i] < applied
          /\ decoded[j] > applied
          /\ decoded[k] = applied
          /\ decoded[k] \notin {0, MaxValue}

\* C5 as stated: for every threshold T, binarizing [0, T, T, max] with T yields
\* [0, 0, 0, max].
C5_SyntheticAlwaysBlack ==
    (pc = "binarize" /\ decoded = Synthetic(applied)) =>
        image = <<0, 0, 0, MaxValue>>

\* C5 amended: binarizing [0, T, T, max] with T yields [0, 0, 0, max] for every
\* T below the maximum, and leaves the buffer [0, max, max, max] as it is for
\* T = max: a pixel equal to the threshold is set to black unless it is 0 or
\* max, which are left as they are.
C5_SyntheticTies ==
    (pc = "binarize" /\ decoded = Synthetic(applied)) =>
        image = IF applied = MaxValue THEN <<0, MaxValue, MaxValue, MaxValue>>
                ELSE <<0, 0, 0, MaxValue>>

\* C5 witness: the loop ran over [0, T, T, max] with a threshold T strictly
\* between 0 and max, and the two ties went black.
C5_Witness ==
    /\ pc = "binarize"
    /\ decoded = Synthetic(applied)
    /\ applied \notin {0, MaxValue}
    /\ image = <<0, 0, 0, MaxValue>>

\* C6: whenever main is about to call an estimator or to start the binarization
\* loop, every sample of the buffer equals the sample of the decoded image, in
\* the 8-bit and in the 16-bit build.
C6_BufferPristineAtCalls ==
    (At("call") \/ At("binarize")) => image = decoded

\* C7: normal_estimate and weighted_estimate return a value inside the pixel
\* range without a conversion that the Pixel type cannot hold, and a smaller or
\* equal ratio never gives a larger threshold on the same buffer.
C7_InRangeAndMonotonic ==
    pc \in {"normal_estimate", "weighted_estimate"} =>
        /\ <<pc, "float_to_pixel">> \notin ub
        /\ threshold[pc] \in 0..MaxValue
        /\ \A r \in Ratios :
              RatioLeq(r, ratio) =>
                 \A v \in ReturnsOf(pc, sample_rate, r) : v <= threshold[pc]

\* C8: with sample stride 1, uniform_sample returns exactly what counting_sort
\* returns for the same buffer, width, height and ratio.
C8_StrideOneIsCountingSort ==
    (pc = "uniform_sample" /\ sample_rate = 1) =>
        ReturnsOf("counting_sort", sample_rate, ratio) = {threshold["uniform_sample"]}

\* C8 witness: uniform_sample ran with stride 1 on the worked example with a
\* cutoff of 2 and returned a bin strictly inside the range.
C8_Witness ==
    /\ pc = "uniform_sample"
    /\ sample_rate = 1
    /\ decoded = Example
    /\ ratio = <<2, 5>>
    /\ threshold["uniform_sample"] = 20

\* The pixels the histogram of e counts, and the cutoff of e.
Sampled(e) ==
    LET step == IF e = "uniform_sample" THEN sample_rate ELSE 1
    IN {i \in 1..(width * height) : (i - 1) % step = 0}

CutoffOf(e) ==
    IF e = "uniform_sample" THEN TruncMul((width * height) \div sample_rate, ratio)
    ELSE TruncMul(width * height, ratio)

\* C9: counting_sort and uniform_sample return 0 when the cutoff is 0 (no bin
\* consumed, index - 1 clamped to 0), and otherwise the last bin consumed: the
\* smallest value v for which the count of counted pixels <= v reaches the cutoff.
C9_ClampedLastBin ==
    pc \in {"counting_sort", "uniform_sample"} =>
        threshold[pc] =
            IF CutoffOf(pc) = 0 THEN 0
            ELSE Min({v \in 0..MaxValue :
                        Cardinality({i \in Sampled(pc) : decoded[i] <= v}) >= CutoffOf(pc)})

Destructive == {"std_sort", "nth_element_sort"}

\* C10 as stated: the buffer is restored after the end time of the destructive
\* estimator has been captured: the event before each restore is that end.
C10_RestoreAfterEnd ==
    \A i \in 1..Len(events) :
        events[i][2] = "restore" => (i > 1 /\ events[i - 1] = <<events[i][1], "end">>)

\* C10 amended: for each destructive estimator the order is start time
\* captured, estimator invoked, buffer restored from the saved copy, end time
\* captured, result displayed, next estimator's start time captured: the
\* restore lies inside the measurement window, and each destructive call is
\* followed at once by its restore.
C10_RestoreInsideWindow ==
    \A i \in 1..Len(events) :
        LET e == events[i][1]
        IN /\ events[i][2] = "restore" =>
                /\ e \in Destructive
                /\ i > 2
                /\ events[i - 2] = <<e, "start">>
                /\ events[i - 1] = <<e, "call">>
                /\ i + 1 <= Len(events) => events[i + 1] = <<e, "end">>
                /\ i + 2 <= Len(events) => events[i + 2] = <<e, "display">>
                /\ i + 3 <= Len(events) =>
                      (events[i + 3][2] = "start" /\ events[i + 3][1] # e)
           /\ (events[i][2] = "call" /\ e \in Destructive /\ i + 1 <= Len(events)) =>
                events[i + 1] = <<e, "restore">>

\* C10 witness: both destructive estimators have run and been restored, the
\* sort changed the buffer, and the next estimator's start time is captured.
C10_Witness ==
    /\ \E i \in 1..Len(events) :
          /\ events[i] = <<"nth_element_sort", "restore">>
          /\ i + 3 <= Len(events)
    /\ \E j \in 1..Len(events) : events[j] = <<"std_sort", "restore">>
    /\ Sorted(decoded) # decoded

====
